---- MODULE Spec2Model ----
(***************************************************************************)
(* A model of the sandbox data layer of grist-core:                        *)
(*   - sandbox/grist/column.py : the column store (BaseColumn and its      *)
(*     Bool, Numeric, Position, Reference and ReferenceList variants);     *)
(*   - sandbox/grist/sandbox.py: the call/response transport (Sandbox).    *)
(* The two parts share no state.  Spec is the column store, SandboxSpec    *)
(* the transport, SandboxLiveSpec the transport with the fairness of a     *)
(* sequential program that always takes its next step.                     *)
(***************************************************************************)
EXTENDS Integers, Sequences, FiniteSets, TLC

VARIABLES
  type_obj,         \* the type descriptor shared by the two columns
  target_table,     \* BaseReferenceColumn._target_table is resolved
  columns,          \* column name -> its fields (_data, _relation, _sorted_rows)
  back_references,  \* the target table's _back_references
  inbound,          \* messages not yet read from _external_input
  outbound,         \* messages written to _external_output
  stack,            \* the Python call stack of the sandbox, outermost first
  status,           \* how the top-level run() stands
  next_id,          \* number of call_external invocations issued so far
  log,              \* what the transport has done, in order
  call,             \* the last call observed on column A: arguments, result
  shared            \* the attributes bound to one object in both columns

colvars == <<type_obj, target_table, columns, back_references, call, shared>>
sbvars == <<inbound, outbound, stack, status, next_id, log>>
vars == <<type_obj, target_table, columns, back_references,
          inbound, outbound, stack, status, next_id, log, call, shared>>

(***************************************************************************)
(* Bounds.                                                                 *)
(***************************************************************************)
\* Largest row id of a column that has no derived index.
MaxRow == 2
\* Largest row id of a reference or position column.
MaxIndexedRow == 1
\* Largest number of entries of a position index.
MaxSortedLen == 3
\* Largest number of messages on the inbound stream.
MaxMessages == 4
\* The same, where termination is checked.
MaxLiveMessages == 3
\* Largest number of calls made where two columns are operated.
MaxCalls == 4

(***************************************************************************)
(* Cell values.  Every value is a record [k, v]: k its Python type and v   *)
(* a sequence of integers (the number, the characters, the list's items).  *)
(***************************************************************************)
IntV(n) == [k |-> "int", v |-> <<n>>]
\* a Python 2 long: an integer whose type is not int
LongV(n) == [k |-> "long", v |-> <<n>>]
FloatV(n) == [k |-> "float", v |-> <<n>>]
BoolV(b) == [k |-> "bool", v |-> <<IF b THEN 1 ELSE 0>>]
InfV == [k |-> "inf", v |-> <<>>]
NoneV == [k |-> "none", v |-> <<>>]
StrV(n) == [k |-> "str", v |-> <<n>>]
ErrV == [k |-> "err", v |-> <<>>]
ListV(s) == [k |-> "list", v |-> s]

Range(s) == {s[i] : i \in 1..Len(s)}

\* Python's == between two cell values: numbers compare by value whatever
\* their type (1 == 1.0 == True), everything else by identity of content.
IsNumber(x) == x.k \in {"int", "long", "float", "bool"}
PyEq(a, b) == IF IsNumber(a) /\ IsNumber(b) THEN a.v = b.v ELSE a = b

\* Python's truth value of a cell value.
Truthy(x) ==
  CASE x.k \in {"int", "long", "float", "bool"} -> x.v[1] # 0
    [] x.k \in {"none"} -> FALSE
    [] x.k \in {"str", "list"} -> x.v # <<>>
    [] OTHER -> TRUE

\* Python 2's < between position keys: numbers by value, the infinite
\* float above every number, and every number below every string.
KeyRank(x) == CASE IsNumber(x) -> 0 [] x.k = "inf" -> 1 [] OTHER -> 2
KeyLess(a, b) ==
  \/ KeyRank(a) < KeyRank(b)
  \/ KeyRank(a) = KeyRank(b) /\ Len(a.v) = 1 /\ Len(b.v) = 1 /\ a.v[1] < b.v[1]

(***************************************************************************)
(* The type descriptor (usertypes) and the relation (relation) are         *)
(* collaborators of column.py.                                             *)
(***************************************************************************)
ColTypes == {"Int", "Bool", "Numeric", "PositionNumber", "Ref", "RefList"}
RefTypes == {"Ref", "RefList"}
IndexedTypes == {"PositionNumber", "Ref", "RefList"}

Cols == {"A", "B"}

\* type_obj.default
TypeDefault(t) ==
  CASE t = "Int" -> IntV(0)
    [] t = "Bool" -> BoolV(FALSE)
    [] t = "Numeric" -> FloatV(0)
    [] t = "PositionNumber" -> InfV
    [] t = "Ref" -> IntV(0)
    [] t = "RefList" -> NoneV

\* type_obj.is_right_type(value)
is_right_type(t, x) ==
  CASE t = "Int" -> x.k = "int"
    [] t = "Bool" -> x.k = "bool"
    [] t = "Numeric" -> x.k \in {"int", "long", "float", "bool", "inf"}
    [] t = "PositionNumber" -> x.k \in {"int", "long", "float", "bool", "inf"}
    [] t = "Ref" -> x.k = "int"
    [] t = "RefList" -> x.k \in {"none", "list"}

\* The values a caller passes to set(): of the right type, alttext or error.
InputValues(t) ==
  CASE t = "Int" -> {IntV(0), IntV(1), StrV(1), ErrV}
    [] t = "Bool" -> {BoolV(FALSE), BoolV(TRUE), IntV(0), IntV(1), IntV(2),
                      FloatV(1), StrV(1), ErrV}
    [] t = "Numeric" -> {FloatV(0), FloatV(1), IntV(0), IntV(1), LongV(2),
                         BoolV(TRUE), StrV(1), ErrV}
    [] t = "PositionNumber" -> {InfV, FloatV(1), IntV(2), StrV(1)}
    [] t = "Ref" -> {IntV(0), IntV(1), IntV(2), StrV(1)}
    [] t = "RefList" -> {NoneV, ListV(<<1, 2>>), ListV(<<2, 3>>), StrV(1)}

\* The row ids of the target table that the values above can refer to.
Targets == 0..3

Rows(t) == IF t \in IndexedTypes THEN 0..MaxIndexedRow ELSE 0..MaxRow

\* relation.ReferenceRelation: the set of (referring row, target row) links.
EmptyRelation == {}
add_reference(rel, row_id, target) == rel \cup {<<row_id, target>>}
remove_reference(rel, row_id, target) == rel \ {<<row_id, target>>}

(***************************************************************************)
(* BaseColumn: _data is a sequence, row id r at position r + 1.            *)
(***************************************************************************)
Defaults(t, n) == [i \in 1..n |-> TypeDefault(t)]

\* A growto that appends size defaults without subtracting the length.
growto_over(t, d, size) ==
  IF Len(d) < size THEN d \o Defaults(t, size) ELSE d

\* A growto that resizes to exactly size, truncating a longer storage.
growto_exact(t, d, size) ==
  IF Len(d) < size THEN d \o Defaults(t, size - Len(d))
  ELSE SubSeq(d, 1, size)

\* BaseColumn.growto
growto(t, d, size) ==
  IF Len(d) < size THEN d \o Defaults(t, size - Len(d)) ELSE d

\* A set that grows on IndexError and forgets to store afterwards.
BaseSetGrowOnly(t, d, row_id, value) ==
  IF row_id < Len(d)
    THEN [d EXCEPT ![row_id + 1] = value]
    ELSE growto(t, d, row_id + 1)

\* BaseColumn.set: store, growing on IndexError
BaseSet(t, d, row_id, value) ==
  IF row_id < Len(d)
    THEN [d EXCEPT ![row_id + 1] = value]
    ELSE [growto(t, d, row_id + 1) EXCEPT ![row_id + 1] = value]

\* What a call that fails with IndexError yields instead of a value.
IndexError == [k |-> "IndexError", v |-> <<>>]

\* A raw_get without the except clause: the IndexError escapes.
raw_get_unguarded(t, d, row_id) ==
  IF row_id < Len(d) THEN d[row_id + 1] ELSE IndexError

\* BaseColumn.raw_get
raw_get(t, d, row_id) ==
  IF row_id < Len(d) THEN d[row_id + 1] ELSE TypeDefault(t)

\* BaseColumn.safe_get
safe_get(t, d, row_id) ==
  IF is_right_type(t, raw_get(t, d, row_id))
    THEN raw_get(t, d, row_id)
    ELSE TypeDefault(t)

\* A clear that forgets to put back the empty record of row 0.
ClearedDataEmpty(t) == <<>>

\* BaseColumn.clear, on _data
ClearedData(t) == growto(t, <<>>, 1)

\* A BoolColumn.set that takes the truth value of whatever it is given.
BoolValueTruthy(value) == BoolV(Truthy(value))

\* BoolColumn.set: the value handed to BaseColumn.set
BoolValue(value) ==
  IF PyEq(value, IntV(1)) THEN BoolV(TRUE)
  ELSE IF PyEq(value, IntV(0)) THEN BoolV(FALSE)
  ELSE value

\* NumericColumn.set: the value handed to BaseColumn.set
NumericValue(value) ==
  IF value.k = "int" THEN FloatV(value.v[1]) ELSE value

(***************************************************************************)
(* PositionColumn: _sorted_rows is a SortedListWithKey of row ids; it      *)
(* keeps, beside each row id, the key computed when the row was added.     *)
(***************************************************************************)
\* SortedListWithKey.add: after the entries whose key is not greater
SortedAdd(s, key, row_id) ==
  LET n == Cardinality({i \in 1..Len(s) : ~KeyLess(key, s[i].key)})
  IN  SubSeq(s, 1, n) \o <<[key |-> key, row |-> row_id]>>
        \o SubSeq(s, n + 1, Len(s))

\* SortedListWithKey.discard: the entry of this row among those of this key
SortedDiscard(s, key, row_id) ==
  LET hits == {i \in 1..Len(s) :
                 /\ ~KeyLess(key, s[i].key) /\ ~KeyLess(s[i].key, key)
                 /\ s[i].row = row_id}
  IN  IF hits = {} THEN s
      ELSE LET i == CHOOSE j \in hits : \A h \in hits : j <= h
           IN  SubSeq(s, 1, i - 1) \o SubSeq(s, i + 1, Len(s))

\* SortedListWithKey(rows, key=self.raw_get): a stable sort of rows by key
RECURSIVE SortedFrom(_, _, _)
SortedFrom(t, d, rows) ==
  IF rows = <<>> THEN <<>>
  ELSE LET last == rows[Len(rows)]
       IN  SortedAdd(SortedFrom(t, d, SubSeq(rows, 1, Len(rows) - 1)),
                     raw_get(t, d, last), last)

SortedRows(s) == [i \in 1..Len(s) |-> s[i].row]

\* PositionColumn.set
PositionSet(t, col, row_id, value) ==
  LET discarded == SortedDiscard(col.sorted_rows,
                                 raw_get(t, col.data, row_id), row_id)
      stored == BaseSet(t, col.data, row_id, NumericValue(value))
  IN  [col EXCEPT
         !.data = stored,
         !.sorted_rows =
            IF ~PyEq(value, TypeDefault(t))
              THEN SortedAdd(discarded, raw_get(t, stored, row_id), row_id)
              ELSE discarded]

\* PositionColumn.copy_from_column
PositionCopyFrom(t, col, other) ==
  [col EXCEPT
     !.data = other.data,
     !.sorted_rows = SortedFrom(t, other.data, SortedRows(other.sorted_rows))]

(***************************************************************************)
(* BaseReferenceColumn, ReferenceColumn, ReferenceListColumn.              *)
(***************************************************************************)
RECURSIVE RemoveAll(_, _, _)
RemoveAll(rel, row_id, targets) ==
  IF targets = <<>> THEN rel
  ELSE RemoveAll(remove_reference(rel, row_id, Head(targets)), row_id,
                 Tail(targets))

RECURSIVE AddAll(_, _, _)
AddAll(rel, row_id, targets) ==
  IF targets = <<>> THEN rel
  ELSE AddAll(add_reference(rel, row_id, Head(targets)), row_id, Tail(targets))

\* The targets _update_references walks for one value: the row id of a
\* truthy reference, the items of a list ("old_list or ()").
WalkedTargets(value) == IF Truthy(value) THEN value.v ELSE <<>>

\* ReferenceColumn._update_references, ReferenceListColumn._update_references
update_references(t, rel, row_id, old_value, new_value) ==
  AddAll(RemoveAll(rel, row_id, WalkedTargets(old_value)), row_id,
         WalkedTargets(new_value))

\* BaseReferenceColumn.set
ReferenceSet(t, col, row_id, value) ==
  LET stored == BaseSet(t, col.data, row_id, value)
  IN  [col EXCEPT
         !.data = stored,
         !.relation = update_references(t, col.relation, row_id,
                                        safe_get(t, col.data, row_id),
                                        safe_get(t, stored, row_id))]

\* BaseReferenceColumn.copy_from_column: the loop over enumerate(self._data)
RECURSIVE Relink(_, _, _, _)
Relink(t, d, rel, n) ==
  IF n = 0 THEN rel
  ELSE LET before == Relink(t, d, rel, n - 1)
       IN  IF is_right_type(t, d[n])
             THEN update_references(t, before, n - 1, NoneV, d[n])
             ELSE before

ReferenceCopyFrom(t, col, other) ==
  [col EXCEPT
     !.data = other.data,
     !.relation = Relink(t, other.data, EmptyRelation, Len(other.data))]

(***************************************************************************)
(* The operations of a column of type t, by the class that implements      *)
(* them (create_column picks the class from the type).                     *)
(***************************************************************************)
\* __init__ of BaseColumn, PositionColumn, BaseReferenceColumn
NewColumn(t) ==
  [data |-> growto(t, <<>>, 1), relation |-> EmptyRelation,
   sorted_rows |-> <<>>, alive |-> TRUE]

ColumnSet(t, col, row_id, value) ==
  CASE t = "Bool" ->
         [col EXCEPT !.data = BaseSet(t, col.data, row_id, BoolValue(value))]
    [] t = "Numeric" ->
         [col EXCEPT !.data = BaseSet(t, col.data, row_id, NumericValue(value))]
    [] t = "PositionNumber" -> PositionSet(t, col, row_id, value)
    [] t \in RefTypes -> ReferenceSet(t, col, row_id, value)
    [] OTHER -> [col EXCEPT !.data = BaseSet(t, col.data, row_id, value)]

\* BaseColumn.unset
ColumnUnset(t, col, row_id) == ColumnSet(t, col, row_id, TypeDefault(t))

\* BaseColumn.clear (no variant overrides it)
ColumnClear(t, col) == [col EXCEPT !.data = ClearedData(t)]

\* BaseColumn.growto, called on the column
ColumnGrow(t, col, size) == [col EXCEPT !.data = growto(t, col.data, size)]

\* BaseColumn.destroy: del self._data[:]
ColumnDestroy(t, col) == [col EXCEPT !.data = <<>>, !.alive = FALSE]

ColumnCopyFrom(t, col, other) ==
  CASE t = "PositionNumber" -> PositionCopyFrom(t, col, other)
    [] t \in RefTypes -> ReferenceCopyFrom(t, col, other)
    [] OTHER -> [col EXCEPT !.data = other.data]

(***************************************************************************)
(* The column store as a state machine.  Column A is the column operated   *)
(* on; column B is another column of the same type, the source of          *)
(* copy_from_column, left by earlier operations in one of a few states.    *)
(***************************************************************************)
SetOp(row_id, value) == [op |-> "set", row |-> row_id, val |-> value]
ClearOp == [op |-> "clear", row |-> 0, val |-> NoneV]

RECURSIVE Replay(_, _)
Replay(t, script) ==
  IF script = <<>> THEN NewColumn(t)
  ELSE LET col == Replay(t, SubSeq(script, 1, Len(script) - 1))
           o == script[Len(script)]
       IN  IF o.op = "set" THEN ColumnSet(t, col, o.row, o.val)
           ELSE ColumnClear(t, col)

\* A typed value that is not the default, and a second one.
Sample1(t) == CHOOSE x \in InputValues(t) :
                is_right_type(t, x) /\ ~PyEq(x, TypeDefault(t))
Sample2(t) == CHOOSE x \in InputValues(t) :
                /\ is_right_type(t, x) /\ ~PyEq(x, TypeDefault(t))
                /\ (x # Sample1(t) \/ t \in {"Int", "Bool"})

OtherScripts(t) ==
  { <<>>,
    <<SetOp(1, StrV(1)), SetOp(0, Sample2(t))>>,
    <<SetOp(0, Sample1(t)), ClearOp, SetOp(1, Sample2(t))>> }

Operated == {"A"}

\* No call observed yet.
NoCall ==
  [op |-> "none", col |-> "A", row |-> 0, val |-> NoneV, before |-> <<>>,
   ret |-> NoneV, other |-> <<>>, count |-> 0]

Other(c) == CHOOSE o \in Cols : o # c

SandboxIdle ==
  /\ inbound = <<>>
  /\ outbound = <<>>
  /\ stack = <<>>
  /\ status = "idle"
  /\ next_id = 0
  /\ log = <<>>

Init ==
  /\ type_obj \in ColTypes
  /\ target_table \in (IF type_obj \in RefTypes THEN BOOLEAN ELSE {FALSE})
  /\ \E script \in OtherScripts(type_obj) :
       columns = [c \in Cols |->
                    IF c = "B" THEN Replay(type_obj, script)
                    ELSE NewColumn(type_obj)]
  /\ back_references = IF target_table THEN Cols ELSE {}
  /\ call = NoCall
  /\ shared = {}
  /\ SandboxIdle

\* create_column: a new column object takes the place of a destroyed one
Create(c) ==
  /\ ~columns[c].alive
  /\ columns' = [columns EXCEPT ![c] = NewColumn(type_obj)]
  /\ back_references' =
       IF target_table THEN back_references \cup {c} ELSE back_references
  /\ UNCHANGED <<type_obj, target_table, sbvars, call, shared>>

Grow(c, size) ==
  /\ columns[c].alive
  /\ columns' = [columns EXCEPT ![c] = ColumnGrow(type_obj, @, size)]
  /\ UNCHANGED <<type_obj, target_table, back_references, sbvars, call, shared>>

Set(c, row_id, value) ==
  /\ columns[c].alive
  /\ Len(ColumnSet(type_obj, columns[c], row_id, value).sorted_rows)
       <= MaxSortedLen
  /\ columns' = [columns EXCEPT ![c] = ColumnSet(type_obj, @, row_id, value)]
  /\ UNCHANGED <<type_obj, target_table, back_references, sbvars, call, shared>>

Unset(c, row_id) ==
  /\ columns[c].alive
  /\ columns' = [columns EXCEPT ![c] = ColumnUnset(type_obj, @, row_id)]
  /\ UNCHANGED <<type_obj, target_table, back_references, sbvars, call, shared>>

Clear(c) ==
  /\ columns[c].alive
  /\ columns' = [columns EXCEPT ![c] = ColumnClear(type_obj, @)]
  /\ UNCHANGED <<type_obj, target_table, back_references, sbvars, call, shared>>

CopyFrom(c, o) ==
  /\ c # o
  /\ columns[c].alive
  /\ columns[o].alive
  /\ columns' = [columns EXCEPT
                   ![c] = ColumnCopyFrom(type_obj, @, columns[o])]
  /\ UNCHANGED <<type_obj, target_table, back_references, sbvars, call, shared>>

\* A destroy that leaves the registration in _back_references behind.
DestroyKeepsRegistration(c) ==
  /\ columns[c].alive
  /\ columns' = [columns EXCEPT ![c] = ColumnDestroy(type_obj, @)]
  /\ UNCHANGED <<type_obj, target_table, back_references, sbvars, call, shared>>

\* destroy of BaseColumn and of BaseReferenceColumn
Destroy(c) ==
  /\ columns[c].alive
  /\ columns' = [columns EXCEPT ![c] = ColumnDestroy(type_obj, @)]
  /\ back_references' =
       IF type_obj \in RefTypes /\ target_table
         THEN back_references \ {c} ELSE back_references
  /\ UNCHANGED <<type_obj, target_table, sbvars, call, shared>>

Next ==
  \E c \in Operated :
    \/ Create(c)
    \/ \E size \in 1..(MaxRow + 1) : Grow(c, size)
    \/ \E row_id \in Rows(type_obj), value \in InputValues(type_obj) :
         Set(c, row_id, value)
    \/ \E row_id \in Rows(type_obj) : Unset(c, row_id)
    \/ Clear(c)
    \/ \E o \in Cols : CopyFrom(c, o)
    \/ Destroy(c)

Spec == Init /\ [][Next]_vars

(***************************************************************************)
(* The calls on one column, observed one at a time: each step makes one    *)
(* call on column A and records its arguments, the storage it found and    *)
(* the value it returned.  The storage is emptied by destroy and started   *)
(* again by create.                                                        *)
(***************************************************************************)
Called(op, row_id, value, ret) ==
  [op |-> op, col |-> "A", row |-> row_id, val |-> value,
   before |-> columns["A"].data, ret |-> ret, other |-> <<>>, count |-> 0]

Observe(col, c) ==
  /\ columns' = [columns EXCEPT !["A"] = col]
  /\ call' = c
  /\ UNCHANGED <<type_obj, target_table, back_references, sbvars, shared>>

CellInit ==
  /\ type_obj \in ColTypes
  /\ target_table = FALSE
  /\ columns = [c \in Cols |-> NewColumn(type_obj)]
  /\ back_references = {}
  /\ call = NoCall
  /\ shared = {}
  /\ SandboxIdle

CallSet(row_id, value) ==
  /\ columns["A"].alive
  /\ Len(ColumnSet(type_obj, columns["A"], row_id, value).sorted_rows)
       <= MaxSortedLen
  /\ Observe(ColumnSet(type_obj, columns["A"], row_id, value),
             Called("set", row_id, value, NoneV))

CallUnset(row_id) ==
  /\ columns["A"].alive
  /\ Observe(ColumnUnset(type_obj, columns["A"], row_id),
             Called("unset", row_id, NoneV, NoneV))

\* raw_get answers on any column, destroyed or not, and assigns nothing
CallGetRaw(row_id) ==
  Observe(columns["A"],
          Called("get_raw", row_id, NoneV,
                 raw_get(type_obj, columns["A"].data, row_id)))

CallGrow(size) ==
  /\ columns["A"].alive
  /\ Observe(ColumnGrow(type_obj, columns["A"], size),
             Called("growto", size, NoneV, NoneV))

\* the target table is not resolved here: destroy has no registration to remove
CallDestroy ==
  /\ columns["A"].alive
  /\ Observe(ColumnDestroy(type_obj, columns["A"]),
             Called("destroy", 0, NoneV, NoneV))

CallCreate ==
  /\ ~columns["A"].alive
  /\ Observe(NewColumn(type_obj), Called("create", 0, NoneV, NoneV))

CellNext ==
  \/ \E row_id \in Rows(type_obj), value \in InputValues(type_obj) :
       CallSet(row_id, value)
  \/ \E row_id \in Rows(type_obj) : CallUnset(row_id)
  \/ \E row_id \in 0..(MaxRow + 1) : CallGetRaw(row_id)
  \/ \E size \in 1..(MaxRow + 1) : CallGrow(size)
  \/ CallDestroy
  \/ CallCreate

CellSpec == CellInit /\ [][CellNext]_vars

(***************************************************************************)
(* Two columns and the objects behind them.  _data and _sorted_rows are    *)
(* mutable objects: a write through one name is seen through every name    *)
(* bound to the same object.  shared holds the attributes whose name is    *)
(* bound to one object in both columns.                                    *)
(***************************************************************************)
\* A copy_from_column that binds the other column's list: self._data =
\* other_column._data.
SharedByAssignment(t) == {"_data"}

\* copy_from_column: self._data[:] = ... writes into the column's own list
\* and other_column._sorted_rows[:] is a new list: nothing is shared.
SharedByCopy(t) == {}

\* A call on column c, and the other column as the call found it.
CalledOn(c, op) ==
  [op |-> op, col |-> c, row |-> 0, val |-> NoneV, before |-> <<>>,
   ret |-> NoneV, other |-> columns[Other(c)], count |-> call.count + 1]

\* The columns after column c became col by writes in place.
Through(c, col) ==
  [x \in Cols |->
     IF x = c THEN col
     ELSE [columns[x] EXCEPT
             !.data = IF "_data" \in shared THEN col.data ELSE @,
             !.sorted_rows =
                IF "_sorted_rows" \in shared THEN col.sorted_rows ELSE @]]

\* The values set where two columns are operated.
ShareValues(t) == {Sample1(t), StrV(1)}

ShareInit ==
  /\ type_obj \in ColTypes
  /\ target_table = FALSE
  /\ columns = [c \in Cols |-> NewColumn(type_obj)]
  /\ back_references = {}
  /\ call = NoCall
  /\ shared = {}
  /\ SandboxIdle

ShSet(c, row_id, value) ==
  /\ Len(ColumnSet(type_obj, columns[c], row_id, value).sorted_rows)
       <= MaxSortedLen
  /\ columns' = Through(c, ColumnSet(type_obj, columns[c], row_id, value))
  /\ call' = CalledOn(c, "set")
  /\ UNCHANGED <<type_obj, target_table, back_references, sbvars, shared>>

ShUnset(c, row_id) ==
  /\ columns' = Through(c, ColumnUnset(type_obj, columns[c], row_id))
  /\ call' = CalledOn(c, "unset")
  /\ UNCHANGED <<type_obj, target_table, back_references, sbvars, shared>>

\* clear: self._data = [] binds a new list, then growto writes into it
ShClear(c) ==
  /\ columns' = [columns EXCEPT ![c] = ColumnClear(type_obj, @)]
  /\ shared' = shared \ {"_data"}
  /\ call' = CalledOn(c, "clear")
  /\ UNCHANGED <<type_obj, target_table, back_references, sbvars>>

\* copy_from_column: _data is written in place, _sorted_rows is bound anew
ShCopyFrom(c, o) ==
  /\ c # o
  /\ columns' = [Through(c, ColumnCopyFrom(type_obj, columns[c], columns[o]))
                   EXCEPT ![o].sorted_rows = columns[o].sorted_rows]
  /\ shared' = (shared \ {"_sorted_rows"}) \cup SharedByCopy(type_obj)
  /\ call' = CalledOn(c, "copy_from")
  /\ UNCHANGED <<type_obj, target_table, back_references, sbvars>>

ShareNext ==
  /\ call.count < MaxCalls
  /\ \E c \in Cols :
      \/ \E row_id \in 0..MaxIndexedRow, value \in ShareValues(type_obj) :
           ShSet(c, row_id, value)
      \/ \E row_id \in 0..MaxIndexedRow : ShUnset(c, row_id)
      \/ ShClear(c)
      \/ ShCopyFrom(c, Other(c))

ShareSpec == ShareInit /\ [][ShareNext]_vars

(***************************************************************************)
(* Sandbox: the transport.  A message is [code, typ, body]: typ the        *)
(* Python type of the body and body its items (the function name of a      *)
(* CALL, the payload of a DATA or EXC); n numbers the inbound messages.    *)
(***************************************************************************)
CALL == "CALL"
DATA == "DATA"
EXC == "EXC"

Msg(code, typ, body) == [code |-> code, typ |-> typ, body |-> body, n |-> 0]

\* self._functions: what each registered function does when invoked.
\*   calls: how many times it calls call_external before it returns;
\*   catches: it catches a failure of call_external and returns anyway;
\*   raises: it raises instead of returning.
Program(name) ==
  CASE name = "add" -> [calls |-> 0, catches |-> FALSE, raises |-> FALSE]
    [] name = "boom" -> [calls |-> 0, catches |-> FALSE, raises |-> TRUE]
    [] name = "f" -> [calls |-> 1, catches |-> FALSE, raises |-> FALSE]
    [] name = "try" -> [calls |-> 1, catches |-> TRUE, raises |-> FALSE]
Registered == {"add", "boom", "f", "try"}

\* What the peer may write on the inbound stream.
Alphabet ==
  { Msg(CALL, "list", <<"add">>), Msg(CALL, "list", <<"boom">>),
    Msg(CALL, "list", <<"f">>), Msg(CALL, "list", <<"try">>),
    Msg(CALL, "list", <<"nope">>),
    Msg(CALL, "list", <<>>), Msg(CALL, "str", <<"x">>),
    Msg(DATA, "str", <<"d1">>), Msg(DATA, "str", <<"d2">>),
    Msg(EXC, "str", <<"e1">>) }

Streams(max) ==
  UNION { [1..k -> Alphabet] : k \in 0..max }
Numbered(s) == [i \in 1..Len(s) |-> [s[i] EXCEPT !.n = i]]

Top(s) == s[Len(s)]
Pop(s) == SubSeq(s, 1, Len(s) - 1)

FnFrame(name, n) ==
  [kind |-> "fn", name |-> name, id |-> 0, n |-> n,
   left |-> Program(name).calls, got |-> "r"]
WaitFrame(id) ==
  [kind |-> "wait", name |-> "g", id |-> id, n |-> 0, left |-> 0, got |-> ""]

Ev(ev, who, n, code, etype, text) ==
  [ev |-> ev, who |-> who, n |-> n, code |-> code, etype |-> etype,
   text |-> text]
Logged(m, e) == [m EXCEPT !.log = Append(@, e)]

Err(etype, text) == [etype |-> etype, text |-> text]
Disconnected == Err("Exception", "Sandbox disconnected unexpectedly")
NoneNotIterable == Err("TypeError", "NoneType object is not iterable")

\* The loop that reads next: run() itself (0) or the run(True) of the
\* innermost call_external (its id).
Reader(st) == IF st = <<>> THEN 0 ELSE Top(st).id
Reading(m) ==
  /\ m.status = "running"
  /\ IF m.stack = <<>> THEN TRUE ELSE Top(m.stack).kind = "wait"
Executing(m) ==
  /\ m.status = "running"
  /\ IF m.stack = <<>> THEN FALSE ELSE Top(m.stack).kind = "fn"

\* A loop that never returns a response, and one that always does.
break_never(who) == FALSE
break_always(who) == TRUE

\* run(break_on_response): False for run(), True inside call_external
break_on_response(who) == who # 0

\* "Bad call " + data: the error raised for a malformed CALL body
BadCallError(msg) ==
  IF msg.typ = "str" THEN Err("ValueError", "Bad call")
  ELSE Err("TypeError", "cannot concatenate str and " \o msg.typ)

WellFormed(msg) == msg.typ = "list" /\ Len(msg.body) >= 1

\* Sandbox._send_to_js.  For the log: who sends (the loop that answers, the
\* call_external that calls) and the inbound CALL n that a DATA or EXC
\* answers.
send_to_js(m, who, n, code, typ, body) ==
  [m EXCEPT
     !.outbound = Append(@, Msg(code, typ, body)),
     !.log = Append(@, Ev("send", who, n, code,
                          IF code = EXC THEN body[1] ELSE "",
                          body[Len(body)]))]

\* A run() whose except clause does not catch: the failure ends run().
CatchInRunFatal(m, e) ==
  [m EXCEPT !.stack = <<>>, !.status = "raised",
            !.log = Append(@, Ev("end", 0, 0, "raised", e.etype, e.text))]

\* run(): "except Exception as e", the function on top of the stack failed
CatchInRun(m, e) ==
  send_to_js([m EXCEPT !.stack = Pop(@)], Reader(Pop(m.stack)),
             Top(m.stack).n, EXC, "str", <<e.etype, e.text>>)

\* An exception leaves call_external, whose frame is on top of the stack,
\* and reaches the function that called it.
RaiseInCall(m, e) ==
  LET w == Top(m.stack)
      f == Top(Pop(m.stack))
      m1 == Logged([m EXCEPT !.stack = Pop(@)],
                   Ev("raise", w.id, 0, "", e.etype, e.text))
  IN  IF Program(f.name).catches
        THEN [m1 EXCEPT !.stack = Append(Pop(@),
                                         [f EXCEPT !.left = 0,
                                                   !.got = "caught"])]
        ELSE CatchInRun(m1, e)

\* call_external returns data to the function that called it.
ReturnInCall(m, data) ==
  LET w == Top(m.stack)
      f == Top(Pop(m.stack))
      m1 == Logged([m EXCEPT !.stack = Pop(@)],
                   Ev("return", w.id, 0, "", "", data))
  IN  [m1 EXCEPT !.stack = Append(Pop(@),
                                  [f EXCEPT !.left = @ - 1, !.got = data])]

\* run() ends: it returns, or an exception leaves it.
RunReturns(m) ==
  Logged([m EXCEPT !.status = "returned"],
         Ev("end", 0, 0, "returned", "", ""))
RunRaises(m, e) ==
  Logged([m EXCEPT !.status = "raised"],
         Ev("end", 0, 0, "raised", e.etype, e.text))

\* An exception leaves the loop that is reading.
RaiseInRun(m, e) ==
  IF m.stack = <<>> THEN RunRaises(m, e) ELSE RaiseInCall(m, e)

\* call_external: what it does with the (msgCode, data) its run(True) returns
CallExternalResult(m, msg) ==
  IF msg.code = EXC
    THEN RaiseInCall(m, Err("Exception", msg.body[1]))
    ELSE ReturnInCall(m, msg.body[1])

\* A run() that raises the disconnection error at every end of stream.
OnEOFAlwaysRaises(m) ==
  RaiseInRun(Logged(m, Ev("read", Reader(m.stack), 0, "EOF", "", "")),
             Disconnected)

\* run(): EOFError, break, and the lines after the loop
OnEOF(m) ==
  LET who == Reader(m.stack)
      m1 == Logged(m, Ev("read", who, 0, "EOF", "", ""))
  IN  IF break_on_response(who) THEN RaiseInRun(m1, Disconnected)
      ELSE IF who = 0 THEN RunReturns(m1)
      ELSE RaiseInCall(m1, NoneNotIterable)

\* run(): msgCode != Sandbox.CALL
OnReply(m) ==
  LET who == Reader(m.stack)
      msg == Head(m.inbound)
      m1 == Logged([m EXCEPT !.inbound = Tail(@)],
                   Ev("read", who, msg.n, msg.code, "", msg.body[1]))
  IN  IF break_on_response(who)
        THEN (IF who = 0 THEN RunReturns(m1) ELSE CallExternalResult(m1, msg))
        ELSE m1

\* run(): a CALL whose body is a non-empty list
OnCall(m) ==
  LET who == Reader(m.stack)
      msg == Head(m.inbound)
      fname == msg.body[1]
      m1 == Logged([m EXCEPT !.inbound = Tail(@)],
                   Ev("read", who, msg.n, CALL, "", fname))
  IN  IF fname \in Registered
        THEN Logged([m1 EXCEPT !.stack = Append(@, FnFrame(fname, msg.n))],
                    Ev("invoke", who, msg.n, "", "", fname))
        ELSE send_to_js(m1, who, msg.n, EXC, "str", <<"KeyError", fname>>)

\* run(): a CALL whose body is not a list or is empty
OnBadCall(m) ==
  LET who == Reader(m.stack)
      msg == Head(m.inbound)
      m1 == Logged([m EXCEPT !.inbound = Tail(@)],
                   Ev("read", who, msg.n, "BADCALL", "", msg.typ))
  IN  RaiseInRun(m1, BadCallError(msg))

\* The function on top of the stack calls call_external.
OnCallExternal(m) ==
  LET id == m.next_id + 1
      m1 == Logged([m EXCEPT !.next_id = id],
                   Ev("issue", id, Top(m.stack).n, "", "", "g"))
      m2 == send_to_js(m1, id, 0, CALL, "list", <<"g">>)
  IN  [m2 EXCEPT !.stack = Append(@, WaitFrame(id))]

\* A run() that sends the DATA answer twice.
OnReturnTwice(m) ==
  LET once == send_to_js([m EXCEPT !.stack = Pop(@)], Reader(Pop(m.stack)),
                         Top(m.stack).n, DATA, "str", <<Top(m.stack).got>>)
  IN  send_to_js(once, Reader(Pop(m.stack)), Top(m.stack).n, DATA, "str",
                 <<Top(m.stack).got>>)

\* A run() that sends no answer when the function returns.
OnReturnSilent(m) == [m EXCEPT !.stack = Pop(@)]

\* The function on top of the stack returns: run() sends DATA.
OnReturn(m) ==
  send_to_js([m EXCEPT !.stack = Pop(@)], Reader(Pop(m.stack)),
             Top(m.stack).n, DATA, "str", <<Top(m.stack).got>>)

\* The function on top of the stack raises: run() sends EXC.
OnRaise(m) == CatchInRun(m, Err("Exception", Top(m.stack).name))

Machine ==
  [inbound |-> inbound, outbound |-> outbound, stack |-> stack,
   status |-> status, next_id |-> next_id, log |-> log]

Becomes(m) ==
  /\ inbound' = m.inbound
  /\ outbound' = m.outbound
  /\ stack' = m.stack
  /\ status' = m.status
  /\ next_id' = m.next_id
  /\ log' = m.log
  /\ UNCHANGED colvars

SandboxStart(max) ==
  /\ \E s \in Streams(max) : inbound = Numbered(s)
  /\ outbound = <<>>
  /\ stack = <<>>
  /\ status = "running"
  /\ next_id = 0
  /\ log = <<>>
  /\ type_obj = "Int"
  /\ target_table = FALSE
  /\ columns = [c \in Cols |-> NewColumn("Int")]
  /\ back_references = {}
  /\ call = NoCall
  /\ shared = {}

SandboxInit == SandboxStart(MaxMessages)
SandboxLiveInit == SandboxStart(MaxLiveMessages)

ReadEOF ==
  /\ Reading(Machine)
  /\ inbound = <<>>
  /\ Becomes(OnEOF(Machine))

ReadReply ==
  /\ Reading(Machine)
  /\ inbound # <<>>
  /\ Head(inbound).code # CALL
  /\ Becomes(OnReply(Machine))

ReadCall ==
  /\ Reading(Machine)
  /\ inbound # <<>>
  /\ Head(inbound).code = CALL
  /\ WellFormed(Head(inbound))
  /\ Becomes(OnCall(Machine))

ReadBadCall ==
  /\ Reading(Machine)
  /\ inbound # <<>>
  /\ Head(inbound).code = CALL
  /\ ~WellFormed(Head(inbound))
  /\ Becomes(OnBadCall(Machine))

FnCallExternal ==
  /\ Executing(Machine)
  /\ Top(stack).left > 0
  /\ Becomes(OnCallExternal(Machine))

FnReturn ==
  /\ Executing(Machine)
  /\ Top(stack).left = 0
  /\ ~Program(Top(stack).name).raises
  /\ Becomes(OnReturn(Machine))

FnRaise ==
  /\ Executing(Machine)
  /\ Top(stack).left = 0
  /\ Program(Top(stack).name).raises
  /\ Becomes(OnRaise(Machine))

SandboxNext ==
  \/ ReadEOF
  \/ ReadReply
  \/ ReadCall
  \/ ReadBadCall
  \/ FnCallExternal
  \/ FnReturn
  \/ FnRaise

SandboxSpec == SandboxInit /\ [][SandboxNext]_vars

\* The sandbox is one sequential program: it takes its next step.
SandboxLiveSpec ==
  SandboxLiveInit /\ [][SandboxNext]_vars /\ WF_vars(SandboxNext)

(***************************************************************************)
(* Properties of the column store, checked under Spec.                     *)
(***************************************************************************)
ColumnA == columns["A"]

\* Whether a well-typed stored value refers to target row t.
RefersTo(value, t) == \E i \in 1..Len(WalkedTargets(value)) :
                        WalkedTargets(value)[i] = t

\* The links that the stored values of a reference column stand for.
LinksOf(t, d) ==
  { <<r, tgt>> \in Rows(t) \X (Targets \ {0}) :
      RefersTo(safe_get(t, d, r), tgt) }

\* C1: for a reference or reference-list column, after any sequence of set,
\* unset, clear and copy_from, the relation holds the link (r -> t) exactly
\* when the well-typed value stored at row r refers to t (t not 0).
C1_RelationMatchesStorage ==
  (type_obj \in RefTypes /\ ColumnA.alive) =>
    ColumnA.relation = LinksOf(type_obj, ColumnA.data)

\* The row ids held in the position index.
IndexedRows(col) == {col.sorted_rows[i].row : i \in 1..Len(col.sorted_rows)}

\* The row ids whose stored value differs from the type's default.
NonDefaultRows(t, d) ==
  {r \in Rows(t) : ~PyEq(raw_get(t, d, r), TypeDefault(t))}

\* C4: for a position column, after any sequence of set, unset, clear and
\* copy_from, the row ids in the position index are exactly the row ids
\* whose stored value differs from the default.
C4_IndexMatchesStorage ==
  (type_obj = "PositionNumber" /\ ColumnA.alive) =>
    IndexedRows(ColumnA) = NonDefaultRows(type_obj, ColumnA.data)

RowZeroDefault(col) ==
  IF Len(col.data) >= 1 THEN col.data[1] = TypeDefault(type_obj) ELSE FALSE

C11_LengthNeverDecreases ==
  [][\A c \in Cols :
       /\ columns'[c].alive => Len(columns'[c].data) >= 1
       /\ \/ Len(columns'[c].data) >= Len(columns[c].data)
          \/ Clear(c)
          \/ Destroy(c)]_vars

\* C11 as amended: the storage of a column that is not destroyed has length
\* at least 1, and no operation other than clear, destroy and copy_from
\* decreases it; copy_from leaves it as long as the source's storage.
C11_LengthDecreasesOnlyByReplacement ==
  [][\A c \in Cols :
       /\ columns'[c].alive => Len(columns'[c].data) >= 1
       /\ \/ Len(columns'[c].data) >= Len(columns[c].data)
          \/ Clear(c)
          \/ Destroy(c)
          \/ \E o \in Cols :
               CopyFrom(c, o) /\ Len(columns'[c].data) = Len(columns[o].data)]_vars

\* C11 witness: the column has grown beyond the other column, by grow or by
\* set, and holds defaults in the rows it was not set at.
C11_Witness ==
  /\ ColumnA.alive
  /\ Len(ColumnA.data) = MaxRow + 1
  /\ Len(ColumnA.data) > Len(columns["B"].data)
  /\ ColumnA.data[Len(ColumnA.data)] = TypeDefault(type_obj)

\* C12: a reference column is in its target table's back-reference set
\* exactly when it was created with a resolved target table and has not been
\* destroyed since, whatever set, unset, clear and copy_from did in between.
C12_RegisteredWhileAlive ==
  \A c \in Cols :
    c \in back_references <=>
      (type_obj \in RefTypes /\ target_table /\ columns[c].alive)

\* C12 witness: a reference column with a resolved target was destroyed,
\* and only the other column is still registered.
C12_Witness ==
  /\ type_obj \in RefTypes
  /\ target_table
  /\ ~ColumnA.alive
  /\ back_references = {"B"}

\* The entries (key, row) of a position index, whatever the order of ties.
IndexEntries(col) == {col.sorted_rows[i] : i \in 1..Len(col.sorted_rows)}

\* The position index a rebuild from scratch over the stored data d gives:
\* every row whose value is not the default, keyed by its stored value.
RebuiltIndex(t, d) ==
  {[key |-> raw_get(t, d, r), row |-> r] : r \in NonDefaultRows(t, d)}

\* C13: after copy_from(colA, colB), every row of colA reads as the same row
\* of colB, and colA's relation (reference columns) or position index
\* (position columns) is the one a rebuild from scratch over colB's stored
\* data gives, whatever colA held before.
C13_CopyEqualsRebuild ==
  [][\A o \in Cols :
       CopyFrom("A", o) =>
         /\ \A r \in 0..(MaxRow + 1) :
              raw_get(type_obj, columns'["A"].data, r)
                = raw_get(type_obj, columns[o].data, r)
         /\ Len(columns'["A"].data) = Len(columns[o].data)
         /\ type_obj \in RefTypes =>
              columns'["A"].relation = LinksOf(type_obj, columns[o].data)
         /\ type_obj = "PositionNumber" =>
              IndexEntries(columns'["A"])
                = RebuiltIndex(type_obj, columns[o].data)]_vars

\* The types whose column class converts in set().
BoolTypes == {"Bool"}
NumericTypes == {"Numeric", "PositionNumber"}

\* C14 as stated: on every column, set(r, v) followed by get_raw(r) returns
\* exactly v, for typed values, alttext and error sentinels alike.
C14_SetStoresVerbatim ==
  call.op = "set" => raw_get(type_obj, ColumnA.data, call.row) = call.val

\* C14 as amended: set(r, v) followed by get_raw(r) returns exactly v, except
\* on a boolean column when v is a number equal to 1 or 0 (it returns true
\* or false) and on a numeric or position column when v is an integer that
\* is not a boolean (it returns the float of v).
C14_SetStoresVerbatimUnlessNormalised ==
  call.op = "set" =>
    LET got == raw_get(type_obj, ColumnA.data, call.row)
        v == call.val
    IN  IF type_obj \in BoolTypes /\ IsNumber(v) /\ v.v \in {<<0>>, <<1>>}
          THEN got = BoolV(v.v = <<1>>)
        ELSE IF type_obj \in NumericTypes /\ v.k = "int"
          THEN got = FloatV(v.v[1])
        ELSE got = v

\* C14 witness: an alttext was set beyond the end of the storage and is read
\* back from its row.
C14_Witness ==
  /\ call.op = "set"
  /\ call.val = StrV(1)
  /\ call.row >= Len(call.before)
  /\ raw_get(type_obj, ColumnA.data, call.row) = StrV(1)

\* C15: get_raw never fails: for a row id within the storage it returns the
\* stored value, for a row id at or beyond the storage length the type's
\* default, and it leaves the storage, contents and length, unchanged.
C15_GetRawTotal ==
  call.op = "get_raw" =>
    /\ call.ret # IndexError
    /\ call.ret = IF call.row < Len(call.before)
                    THEN call.before[call.row + 1]
                    ELSE TypeDefault(type_obj)
    /\ ColumnA.data = call.before

\* C15 witness: get_raw was called at the storage length of a column that
\* holds an alttext in its last row, and returned the default.
C15_Witness ==
  /\ call.op = "get_raw"
  /\ call.row = Len(call.before)
  /\ call.row >= 2
  /\ call.before[call.row] = StrV(1)
  /\ call.ret = TypeDefault(type_obj)

\* The value stored at the row of the last set.
StoredBySet == raw_get(type_obj, ColumnA.data, call.row)

\* C16: on a boolean column, set(r, v) stores true when v is the number 1,
\* false when v is the number 0, and v itself for every other input, wrong
\* types, alttext and error sentinels included (set(r, 2) stores 2).
C16_BoolNormalisesOneAndZero ==
  (call.op = "set" /\ type_obj \in BoolTypes) =>
    /\ (IsNumber(call.val) /\ call.val.v = <<1>>) => StoredBySet = BoolV(TRUE)
    /\ (IsNumber(call.val) /\ call.val.v = <<0>>) => StoredBySet = BoolV(FALSE)
    /\ ~(IsNumber(call.val) /\ call.val.v \in {<<0>>, <<1>>}) =>
         StoredBySet = call.val

\* C16 witness: the float 1.0 was set on a boolean column that holds the
\* integer 2 in another row, and true is stored.
C16_Witness ==
  /\ call.op = "set"
  /\ type_obj \in BoolTypes
  /\ call.val = FloatV(1)
  /\ StoredBySet = BoolV(TRUE)
  /\ \E r \in Rows(type_obj) : raw_get(type_obj, ColumnA.data, r) = IntV(2)

\* C17: on a numeric column and its position variant, set(r, v) stores the
\* float of v when v is an integer that is not a boolean, and every other
\* input (floats, booleans, alttext, error sentinels) unchanged.
C17_NumericStoresIntegersAsFloats ==
  (call.op = "set" /\ type_obj \in NumericTypes) =>
    IF call.val.k \in {"int", "long"}
      THEN StoredBySet = FloatV(call.val.v[1])
      ELSE StoredBySet = call.val

\* C18: set(r, v) changes only row r: every other row that existed keeps
\* its stored value, and when r is at or beyond the storage length the
\* storage grows to exactly r + 1 rows, the new rows other than r holding
\* the type's default.
C18_SetChangesOnlyItsRow ==
  call.op = "set" =>
    /\ Len(ColumnA.data) = IF call.row < Len(call.before)
                              THEN Len(call.before)
                              ELSE call.row + 1
    /\ \A i \in 1..Len(ColumnA.data) :
         i # call.row + 1 =>
           ColumnA.data[i] = IF i <= Len(call.before)
                               THEN call.before[i]
                               ELSE TypeDefault(type_obj)

\* C18 witness: a set beyond the end of a storage whose row 0 holds another
\* value than the default left row 0 alone and created a default row
\* between.
C18_Witness ==
  /\ call.op = "set"
  /\ call.row > Len(call.before)
  /\ Len(call.before) >= 1
  /\ call.before[1] # TypeDefault(type_obj)
  /\ ColumnA.data[1] = call.before[1]
  /\ ColumnA.data[call.row] = TypeDefault(type_obj)

(***************************************************************************)
(* Properties of the transport, read off the log.                          *)
(***************************************************************************)
Max(S) == CHOOSE x \in S : \A y \in S : y <= x

IsFinish(e) == e.ev \in {"return", "raise"}
IsReplyRead(e) == e.ev = "read" /\ e.code \in {DATA, EXC}

\* The call_external invocations issued and not finished before position i.
OutstandingAt(i) ==
  {log[j].who : j \in {x \in 1..(i - 1) : log[x].ev = "issue"}}
    \ {log[j].who : j \in {x \in 1..(i - 1) : IsFinish(log[x])}}

\* The events that the read at position i causes: up to the next read.
CausedBy(i) ==
  {j \in (i + 1)..Len(log) :
     \A x \in (i + 1)..j : log[x].ev # "read"}

\* C2: a DATA or EXC read while call_external invocations are outstanding is
\* consumed by the most recently issued outstanding one and by no other; it
\* returns the DATA payload or raises an Exception built from the EXC payload.
C2_RepliesAreLIFO ==
  \A i \in 1..Len(log) :
    (IsReplyRead(log[i]) /\ OutstandingAt(i) # {}) =>
      /\ log[i].who = Max(OutstandingAt(i))
      /\ i < Len(log)
      /\ log[i + 1].who = log[i].who
      /\ log[i + 1].text = log[i].text
      /\ IF log[i].code = DATA
           THEN log[i + 1].ev = "return"
           ELSE log[i + 1].ev = "raise" /\ log[i + 1].etype = "Exception"
      /\ \A j \in CausedBy(i) : IsFinish(log[j]) => j = i + 1

\* C2 witness: a reply read with two calls outstanding, returned to the
\* later one.
C2_Witness ==
  \E i \in 1..Len(log) :
    /\ IsReplyRead(log[i])
    /\ Cardinality(OutstandingAt(i)) >= 2
    /\ i < Len(log)
    /\ log[i + 1].ev = "return"

\* C3: while a function is waiting inside call_external, every CALL read
\* before the reply is dispatched (to its function when it names a
\* registered one) and answered with DATA or EXC before the reply is consumed.
C3_CallsAnsweredBeforeReply ==
  \A i \in 1..Len(log), j \in 1..Len(log) :
    ( /\ i < j
      /\ log[i].ev = "issue"
      /\ IsFinish(log[j])
      /\ log[j].who = log[i].who
      /\ IsReplyRead(log[j - 1]) ) =>
      \A c \in (i + 1)..(j - 1) :
        (log[c].ev = "read" /\ log[c].code = CALL) =>
          /\ \E a \in (c + 1)..(j - 1) :
               /\ log[a].ev = "send"
               /\ log[a].code \in {DATA, EXC}
               /\ log[a].n = log[c].n
          /\ log[c].text \in Registered =>
               /\ log[c + 1].ev = "invoke"
               /\ log[c + 1].n = log[c].n
               /\ log[c + 1].text = log[c].text

\* C3 witness: a CALL was read and answered between the issue of a
\* call_external and the reply it then consumed.
C3_Witness ==
  \E i \in 1..Len(log), j \in 1..Len(log) :
    /\ i < j
    /\ log[i].ev = "issue"
    /\ log[j].ev = "return"
    /\ log[j].who = log[i].who
    /\ \E c \in (i + 1)..(j - 1) :
         /\ log[c].ev = "invoke"
         /\ \E a \in (c + 1)..(j - 1) :
              log[a].ev = "send" /\ log[a].code = DATA /\ log[a].n = log[c].n

\* The name in inbound CALL number n.
NameOfCall(n) ==
  LET p == CHOOSE x \in 1..Len(log) :
             log[x].ev = "read" /\ log[x].code = CALL /\ log[x].n = n
  IN  log[p].text

\* The invocation for a CALL fails at position p of the log: the function
\* raises, no function has the name, or a call_external of a function that
\* does not catch raises.
FailsAt(p) ==
  \/ log[p].ev = "invoke" /\ Program(log[p].text).raises
  \/ log[p].ev = "read" /\ log[p].code = CALL /\ log[p].text \notin Registered
  \/ /\ log[p].ev = "raise"
     /\ \E x \in 1..p :
          /\ log[x].ev = "issue"
          /\ log[x].who = log[p].who
          /\ ~Program(NameOfCall(log[x].n)).catches

\* After the send at position a the same loop reads on.
LoopReadsOn(a) ==
  IF a = Len(log)
    THEN Reading(Machine) /\ Reader(stack) = log[a].who
    ELSE log[a + 1].ev = "read" /\ log[a + 1].who = log[a].who

\* C5: when the invocation for a dispatched CALL fails, the loop sends an
\* EXC that describes the failure and keeps running: it reads the next
\* message.
C5_FailedCallAnsweredLoopAlive ==
  \A p \in 1..Len(log) :
    FailsAt(p) =>
      IF p = Len(log)
        THEN log[p].ev = "invoke" /\ Executing(Machine)
        ELSE /\ log[p + 1].ev = "send"
             /\ log[p + 1].code = EXC
             /\ log[p + 1].etype # ""
             /\ log[p].ev \in {"invoke", "read"} => log[p + 1].n = log[p].n
             /\ log[p].ev = "raise" => log[p + 1].etype = log[p].etype
             /\ LoopReadsOn(p + 1)

\* C5 witness: after the EXC for a failed call a later CALL was dispatched.
C5_Witness ==
  \E p \in 1..Len(log), q \in 1..Len(log) :
    /\ p < q
    /\ FailsAt(p)
    /\ log[p + 1].ev = "send"
    /\ log[q].ev = "invoke"
    /\ log[q].who = log[p + 1].who

\* C6: a CALL whose body is empty or not a list fails with the descriptive
\* error (ValueError "Bad call ...") and no function is invoked for it.
C6_BadCallFailsDescriptively ==
  \A p \in 1..Len(log) :
    (log[p].ev = "read" /\ log[p].code = "BADCALL") =>
      /\ p < Len(log)
      /\ log[p + 1].ev \in {"raise", "end"}
      /\ log[p + 1].etype = "ValueError"
      /\ log[p + 1].text = "Bad call"
      /\ \A x \in 1..Len(log) : log[x].ev = "invoke" => log[x].n # log[p].n

IsDisconnect(e) ==
  /\ e.ev = "raise"
  /\ e.etype = "Exception"
  /\ e.text = "Sandbox disconnected unexpectedly"

\* C7: when the stream ends while call_external invocations are outstanding,
\* the innermost one fails with the disconnection error; none of them
\* returns a value afterwards and none is left waiting when run() has ended.
C7_DisconnectFailsInnermost ==
  /\ \A p \in 1..Len(log) :
       (log[p].ev = "read" /\ log[p].code = "EOF" /\ OutstandingAt(p) # {}) =>
         /\ log[p].who = Max(OutstandingAt(p))
         /\ p < Len(log)
         /\ IsDisconnect(log[p + 1])
         /\ log[p + 1].who = log[p].who
         /\ \A j \in (p + 1)..Len(log) :
              IsFinish(log[j]) => IsDisconnect(log[j])
  /\ status # "running" => OutstandingAt(Len(log) + 1) = {}

\* C7 witness: two calls were outstanding when the stream ended and both
\* have failed with the disconnection error.
C7_Witness ==
  \E p \in 1..Len(log), q \in 1..Len(log) :
    /\ p < q
    /\ log[p].ev = "read" /\ log[p].code = "EOF"
    /\ Cardinality(OutstandingAt(p)) >= 2
    /\ IsDisconnect(log[q])
    /\ log[q].who # log[p].who

\* C8: a DATA or EXC read by run() while no call_external is outstanding is
\* discarded: nothing is invoked, nothing is sent, the loop reads on.
C8_UnmatchedReplyDiscarded ==
  [][ ( /\ status = "running"
        /\ stack = <<>>
        /\ inbound # <<>>
        /\ Head(inbound).code \in {DATA, EXC} ) =>
      ( /\ inbound' = Tail(inbound)
        /\ outbound' = outbound
        /\ stack' = <<>>
        /\ status' = "running"
        /\ next_id' = next_id
        /\ Len(log') = Len(log) + 1
        /\ log'[Len(log')].ev = "read" ) ]_vars

\* C8 witness: run() discarded a reply and then dispatched a CALL.
C8_Witness ==
  \E p \in 1..Len(log), q \in 1..Len(log) :
    /\ p < q
    /\ IsReplyRead(log[p])
    /\ log[p].who = 0
    /\ log[q].ev = "invoke"
    /\ log[q].who = 0

\* run() read a malformed CALL itself and the error left it.
BadCallEndedRun ==
  /\ Len(log) >= 2
  /\ log[Len(log) - 1].ev = "read"
  /\ log[Len(log) - 1].code = "BADCALL"
  /\ log[Len(log) - 1].who = 0
  /\ log[Len(log)].ev = "end"

CallReads == {p \in 1..Len(log) :
                log[p].ev = "read" /\ log[p].code \in {CALL, "BADCALL"}}
GoodCallReads == {p \in 1..Len(log) :
                    log[p].ev = "read" /\ log[p].code = CALL}

\* The positions where the CALL read at position p was answered.
AnswersTo(p) ==
  {a \in 1..Len(log) :
     /\ log[a].ev = "send"
     /\ log[a].code \in {DATA, EXC}
     /\ log[a].n = log[p].n}

\* The function invoked for the CALL read at position p is still on the stack.
Executes(p) ==
  \E i \in 1..Len(stack) : stack[i].kind = "fn" /\ stack[i].n = log[p].n

\* The CALLs read at positions in P are answered once each, after they were
\* read and by the time run() has ended, and the answers are nested: a CALL
\* read while the function of another executes is answered before it.
AnsweredOnceNested(P) ==
  /\ \A p \in P :
       /\ Cardinality(AnswersTo(p)) <= 1
       /\ \A a \in AnswersTo(p) : p < a
       /\ AnswersTo(p) = {} => (status = "running" /\ Executes(p))
  /\ \A p \in P, q \in P :
       (p < q /\ \A a \in AnswersTo(p) : q < a) =>
         /\ AnswersTo(p) # {} => AnswersTo(q) # {}
         /\ \A a \in AnswersTo(p), b \in AnswersTo(q) : b < a

C20_CopySharesNothing ==
  call.op \in {"copy_from", "set", "unset", "clear"} =>
    (call.other # <<>> => columns[Other(call.col)] = call.other)

\* C20 witness: after a copy the two columns were written apart and differ
\* in storage, the source keeping a value the copy has lost.
C20_Witness ==
  /\ call.op = "set"
  /\ call.other # <<>>
  /\ Len(columns["B"].data) >= 2
  /\ Len(columns["A"].data) >= 2
  /\ columns["B"].data[2] = StrV(1)
  /\ columns["A"].data[2] = Sample1(type_obj)
  /\ columns["A"].data[1] = StrV(1)
  /\ columns["B"].data[1] = StrV(1)

====
